---- MODULE Spec2Model ----
(***************************************************************************)
(* copyDomainDevice (QuickSilver, MC_Domain.hh): the builder that mirrors  *)
(* the host MC_Domain tree into device memory, one allocation and one copy *)
(* at a time, patching every parent record with its children's device     *)
(* addresses before the parent itself is copied.                           *)
(*                                                                         *)
(* Indices are 1-based here (cell j of the code is cell j+1 of the model). *)
(***************************************************************************)
EXTENDS Integers, Sequences, FiniteSets, TLC

\* Bounds of the explored inputs.
MaxDomains == 2
MaxCells == 2
MaxGroups == 2
MaxPoints == 2

\* The content of an int that malloc returned and nobody has written yet.
UninitInt == -1

(***************************************************************************)
(* Addresses.  A pointer is null, a host address, a device address (the    *)
(* index of the buffer in dev) or the indeterminate content of malloc'ed   *)
(* storage.                                                                *)
(***************************************************************************)
NULL == [sp |-> "null", a |-> 0]
UNINIT == [sp |-> "uninit", a |-> 0]
Dev(n) == [sp |-> "dev", a |-> n]
Host(n) == [sp |-> "host", a |-> n]

(***************************************************************************)
(* The host domain model (read-only input).  Every element carries a value *)
(* that names its array, domain, cell and position, so that a copy taken   *)
(* from the wrong place is visible.                                        *)
(***************************************************************************)
Val(tag, ii, jj, k) == tag * 1000 + ii * 100 + jj * 10 + k

\* The host address of cell jj's cross-section array in domain ii.
HostTotalAddr(ii, jj) == Host(ii * 10 + jj)

MC_Cell_State(ii, jj, g) ==
  [ _material |-> Val(2, ii, jj, 0),
    _total    |-> [k \in 1..g |-> Val(1, ii, jj, k)] ]

MC_Facet_Adjacency_Cell(ii, jj) ==
  LET np == (ii + jj) % (MaxPoints + 1)
      nf == (ii + 2 * jj + 1) % (MaxPoints + 1)
  IN  [ num_points |-> np,
        num_facets |-> nf,
        _point     |-> [k \in 1..np |-> Val(3, ii, jj, k)],
        _facet     |-> [k \in 1..nf |-> Val(4, ii, jj, k)] ]

MC_Facet_Geometry_Cell(ii, jj) ==
  LET ns == (2 * ii + jj) % (MaxPoints + 1)
  IN  [ _size  |-> ns,
        _facet |-> [k \in 1..ns |-> Val(5, ii, jj, k)] ]

MC_Mesh_Domain(ii, nc) ==
  [ _domainGid        |-> Val(7, ii, 0, 0),
    _nbrRank          |-> [k \in 1..((ii + nc) % 2) |-> Val(8, ii, 0, k)],
    _node             |-> [k \in 1..(2 * nc) |-> Val(9, ii, 0, k)],
    _cellConnectivity |-> [jj \in 1..nc |-> MC_Facet_Adjacency_Cell(ii, jj)],
    _cellGeometry     |-> [jj \in 1..nc |-> MC_Facet_Geometry_Cell(ii, jj)] ]

MC_Domain(ii, nc, g) ==
  [ domainIndex   |-> ii - 1,
    global_domain |-> Val(6, ii, 0, 0),
    cell_state    |-> [jj \in 1..nc |-> MC_Cell_State(ii, jj, g)],
    mesh          |-> MC_Mesh_Domain(ii, nc) ]

(***************************************************************************)
(* The device-side records, as malloc leaves them.                         *)
(***************************************************************************)
MC_Mesh_Domain_d ==
  [ _domainGid            |-> UninitInt,
    _nbrRank              |-> UNINIT,
    _nbrRankSize          |-> UninitInt,
    _node                 |-> UNINIT,
    _nodeSize             |-> UninitInt,
    _cellConnectivity     |-> UNINIT,
    _cellConnectivitySize |-> UninitInt,
    _cellGeometry         |-> UNINIT,
    _cellGeometrySize     |-> UninitInt ]

MC_Domain_d ==
  [ domainIndex    |-> UninitInt,
    global_domain  |-> UninitInt,
    cell_state     |-> UNINIT,
    cell_stateSize |-> UninitInt,
    mesh           |-> MC_Mesh_Domain_d ]

VARIABLES
  numEnergyGroups,   \* parameter
  domain,            \* parameter: the host domains
  domain_d,          \* parameter: the caller's address for the descriptor array
  zeroSizeNull,      \* whether the allocator answers a zero-size request with null
  domainSize,        \* the caller's int, written through the reference
  domain_h,          \* host staging: the descriptor array
  cell_state_h,      \* host staging: the cell states of domain i
  cellConnectivity,  \* host staging: the connectivity cells of domain i
  cellGeometry,      \* host staging: the geometry cells of domain i
  hostLive,          \* the host staging buffers malloc'ed and not yet freed
  hostLog,           \* every malloc, read, write and free of a staging buffer, in order
  dev,               \* device memory: dev[a] is the content of buffer a
  pc, i, j,          \* position in copyDomainDevice
  log,               \* every allocation and copy issued so far, in order
  T, N,              \* test<T>(Msg, N): the integer type and the number of inputs
  sources, starts, lengths,   \* the inputs test<T> drew
  bfe_safe,          \* what dpct::bfe_safe<T> returns for each of the N inputs
  dpct_results_buffer, slow_results_buffer,
  submitted,         \* the kernels submitted to the queue and not yet run
  failed, idx, ret,  \* test<T>: its counter, its comparison index, its result
  tpc                \* position in test<T>

inputs == <<numEnergyGroups, domain, domain_d, zeroSizeNull>>
vars == <<numEnergyGroups, domain, domain_d, zeroSizeNull, domainSize, domain_h,
          cell_state_h, cellConnectivity, cellGeometry, hostLive, hostLog, dev, pc, i, j,
          log, T, N, sources, starts, lengths, bfe_safe, dpct_results_buffer,
          slow_results_buffer, submitted, failed, idx, ret, tpc>>

\* The state of copyDomainDevice and the state of test<T>: two programs, each
\* left alone by the other's steps.
builder == <<numEnergyGroups, domain, domain_d, zeroSizeNull, domainSize, domain_h,
             cell_state_h, cellConnectivity, cellGeometry, hostLive, hostLog, dev, pc, i,
             j, log>>
harness == <<T, N, sources, starts, lengths, bfe_safe, dpct_results_buffer,
             slow_results_buffer, submitted, failed, idx, ret, tpc>>

\* test<T> not running.
HarnessIdle ==
  /\ T = "int" /\ N = 0
  /\ sources = <<>> /\ starts = <<>> /\ lengths = <<>> /\ bfe_safe = <<>>
  /\ dpct_results_buffer = <<>> /\ slow_results_buffer = <<>>
  /\ submitted = {}
  /\ failed = 0 /\ idx = 1 /\ ret = "none"
  /\ tpc = "idle"

\* One issued call: op on the array `what` of domain i (cell j, or 0), for n
\* elements, at address ptr; inj is what the device did, res what the call did.
Ev(op, what, ii, jj, n, ptr, inj, res) ==
  [op |-> op, what |-> what, i |-> ii, j |-> jj, n |-> n, ptr |-> ptr,
   inj |-> inj, res |-> res]

\* One access to the host staging buffer buf of domain ii (0: the descriptor
\* array, which belongs to no domain), made in the step that issues call `at`
\* of the log (0: before any call).
Acc(op, buf, ii, at) == [op |-> op, buf |-> buf, i |-> ii, at |-> at]

\* buf[..].field = sycl::malloc_device(...) inside DPCT_CHECK_ERROR: the field
\* is written unless the allocation threw.
AllocInto(buf, ii, at, r) == IF r = "throw" THEN <<>> ELSE <<Acc("write", buf, ii, at)>>

\* Defect: free(buf) is placed before the copy that reads buf.
CopyThenFree_freeFirst(buf, ii, at, ok) ==
  IF ok THEN <<Acc("free", buf, ii, at), Acc("read", buf, ii, at)>>
  ELSE <<Acc("read", buf, ii, at)>>

\* safeCall(DPCT_CHECK_ERROR(memcpy(<device address>, buf, ...).wait())) and,
\* reached only when the copy completed, free(buf).
CopyThenFree(buf, ii, at, ok) ==
  <<Acc("read", buf, ii, at)>> \o (IF ok THEN <<Acc("free", buf, ii, at)>> ELSE <<>>)

(***************************************************************************)
(* The library calls.                                                      *)
(***************************************************************************)
\* What sycl::malloc_device can do with a request for n elements: return the
\* address of a new buffer, return null (out of resources), or throw.
AllocResults(n) == IF n > 0 THEN {"ok", "null", "throw"} ELSE {"ok", "throw"}

\* What a queue memcpy followed by wait() can do: complete, or throw.
CopyResults == {"ok", "throw"}

\* sycl::malloc_device<T>(n, q): a buffer no earlier call returned.
MallocDevice(mem, n, r) ==
  IF r = "ok" /\ ~(n = 0 /\ zeroSizeNull)
  THEN [ptr |-> Dev(Len(mem) + 1), mem |-> Append(mem, [k \in 1..n |-> UninitInt])]
  ELSE [ptr |-> NULL, mem |-> mem]

\* queue.memcpy(dst, src, n).wait(): a copy of n > 0 elements to the null
\* address throws; a copy of no element does not look at the address.
MemcpyResult(dst, n, c) ==
  IF c = "throw" \/ (n > 0 /\ dst.sp = "null") THEN "throw" ELSE "ok"

\* Device memory after a completed copy of src[1..n] to dst (a copy to a host
\* address leaves device memory alone).
Memcpy(mem, dst, src, n) ==
  IF n = 0 \/ dst.sp # "dev" THEN mem
  ELSE [mem EXCEPT ![dst.a] = [k \in 1..Len(@) |-> IF k <= n THEN src[k] ELSE @[k]]]

\* DPCT_CHECK_ERROR(expr): non-zero exactly when expr threw.
DPCT_CHECK_ERROR(res) == res = "throw"

\* safeCall(err): the build stops on a non-zero error code.
safeCall(err, next) == IF err THEN "aborted" ELSE next

Init ==
  /\ \E nd \in 0..MaxDomains, g \in 1..MaxGroups :
       \E nc \in [1..nd -> 0..MaxCells] :
         /\ numEnergyGroups = g
         /\ domain = [ii \in 1..nd |-> MC_Domain(ii, nc[ii], g)]
         /\ \E p \in {NULL, Dev(1)} :
              /\ domain_d = p
              /\ dev = IF p = NULL THEN <<>> ELSE <<[k \in 1..nd |-> UninitInt]>>
  /\ zeroSizeNull \in BOOLEAN
  /\ domainSize = UninitInt
  /\ domain_h = <<>>
  /\ cell_state_h = <<>>
  /\ cellConnectivity = <<>>
  /\ cellGeometry = <<>>
  /\ hostLive = {}
  /\ hostLog = <<>>
  /\ pc = "start"
  /\ i = 1
  /\ j = 1
  /\ log = <<>>
  /\ HarnessIdle

\* Defect: a do-while, the body runs before the test.
CellLoop_doWhile(jj, size, body, exit) == IF jj <= size \/ jj = 1 THEN body ELSE exit

\* Defect: j < size - 1, the last cell is left out.
CellLoop_skipsLast(jj, size, body, exit) == IF jj < size THEN body ELSE exit

\* for(int j=0;j<size;j++): the body for cell jj, or the statement after.
CellLoop(jj, size, body, exit) == IF jj <= size THEN body ELSE exit

\* Defect: a do-while, the body runs before the test.
DomainLoop_doWhile(ii, size) == IF ii <= size \/ ii = 1 THEN "stage_cell_state" ELSE "copy_domain"

\* Defect: i < domainSize - 1, the last domain is left out.
DomainLoop_skipsLast(ii, size) == IF ii < size THEN "stage_cell_state" ELSE "copy_domain"

\* for(int i=0;i<domainSize;i++)
DomainLoop(ii, size) == IF ii <= size THEN "stage_cell_state" ELSE "copy_domain"

\* Lines 168-172: domainSize, the staging descriptor array, the loop's entry.
Start ==
  /\ pc = "start"
  /\ domainSize' = Len(domain)
  /\ domain_h' = [k \in 1..Len(domain) |-> MC_Domain_d]
  /\ hostLive' = hostLive \cup {"domain_h"}
  /\ hostLog' = hostLog \o <<Acc("malloc", "domain_h", 0, 0)>>
  /\ i' = 1
  /\ pc' = DomainLoop(1, Len(domain))
  /\ UNCHANGED <<harness, inputs, cell_state_h, cellConnectivity, cellGeometry, dev, j, log>>

\* Defect: the cell states are staged in reverse order.
StageCellStates_reversed(cs, ii) ==
  [jj \in 1..Len(cs) |-> [_material |-> cs[Len(cs) + 1 - jj]._material,
                          _total |-> HostTotalAddr(ii, Len(cs) + 1 - jj)]]

\* memcpy(cell_state_h, domain[i].cell_state.outputPointer(), ...): the raw
\* copy of the host cell states: each _total is still the host's address.
StageCellStates(cs, ii) ==
  [jj \in 1..Len(cs) |-> [_material |-> cs[jj]._material, _total |-> HostTotalAddr(ii, jj)]]

\* Defect: the energy-group count is recorded as the cell count.
CellStateSize_groups(ii) == numEnergyGroups

\* domain[i].cell_state.size(), as line 179 records it.
CellStateSize(ii) == Len(domain[ii].cell_state)

\* Lines 175-186: scalars and cell_stateSize of domain i, the staging cell
\* states and their raw copy from the host vector.
StageCellState ==
  /\ pc = "stage_cell_state"
  /\ \E c \in CopyResults :
       LET n == Len(domain[i].cell_state) IN
       /\ domain_h' = [domain_h EXCEPT ![i].domainIndex = domain[i].domainIndex,
                                       ![i].global_domain = domain[i].global_domain,
                                       ![i].cell_stateSize = CellStateSize(i)]
       /\ hostLive' = hostLive \cup {"cell_state_h"}
       /\ cell_state_h' = IF c = "ok"
                          THEN StageCellStates(domain[i].cell_state, i)
                          ELSE [jj \in 1..n |-> [_material |-> UninitInt, _total |-> UNINIT]]
       /\ log' = Append(log, Ev("copy", "cell_state_h", i, 0, n, Host(0), c, c))
       /\ hostLog' = hostLog \o
                       <<Acc("write", "domain_h", 0, Len(log) + 1),
                         Acc("malloc", "cell_state_h", i, Len(log) + 1),
                         Acc("write", "cell_state_h", i, Len(log) + 1)>>
       /\ pc' = safeCall(DPCT_CHECK_ERROR(c), CellLoop(1, n, "alloc_total", "alloc_cell_state"))
       /\ j' = 1
  /\ UNCHANGED <<harness, inputs, domainSize, cellConnectivity, cellGeometry, dev, i>>

\* Defect: the address is dropped, the host's _total stays in the record.
PatchTotal_keepsHost(st, jj, p) == st

\* cell_state_h[j]._total = <the address malloc_device returned>
PatchTotal(st, jj, p) == [st EXCEPT ![jj]._total = p]

\* Lines 195-197.
AllocTotal ==
  /\ pc = "alloc_total"
  /\ \E r \in AllocResults(numEnergyGroups) :
       LET m == MallocDevice(dev, numEnergyGroups, r) IN
       /\ log' = Append(log, Ev("alloc", "_total", i, j, numEnergyGroups, m.ptr, r, r))
       /\ hostLog' = hostLog \o AllocInto("cell_state_h", i, Len(log) + 1, r)
       /\ dev' = m.mem
       /\ cell_state_h' = IF r = "throw" THEN cell_state_h ELSE PatchTotal(cell_state_h, j, m.ptr)
       /\ pc' = safeCall(DPCT_CHECK_ERROR(r), "copy_total")
  /\ UNCHANGED <<harness, inputs, domainSize, domain_h, cellConnectivity, cellGeometry,
                 hostLive, i, j>>

\* Defect: every cell's buffer is filled from the first cell.
TotalSource_firstCell(ii, jj) == domain[ii].cell_state[1]._total

\* The host array the _total copy reads: domain[i].cell_state[j]._total.
TotalSource(ii, jj) == domain[ii].cell_state[jj]._total

\* Lines 198-204, and the loop's step.
CopyTotal ==
  /\ pc = "copy_total"
  /\ \E c \in CopyResults :
       LET dst == cell_state_h[j]._total
           res == MemcpyResult(dst, numEnergyGroups, c)
       IN
       /\ log' = Append(log, Ev("copy", "_total", i, j, numEnergyGroups, dst, c, res))
       /\ hostLog' = hostLog \o <<Acc("read", "cell_state_h", i, Len(log) + 1)>>
       /\ dev' = IF res = "ok" THEN Memcpy(dev, dst, TotalSource(i, j), numEnergyGroups) ELSE dev
       /\ pc' = safeCall(DPCT_CHECK_ERROR(res), CellLoop(j + 1, Len(domain[i].cell_state), "alloc_total", "alloc_cell_state"))
       /\ j' = IF res = "ok" THEN j + 1 ELSE j
  /\ UNCHANGED <<harness, inputs, domainSize, domain_h, cell_state_h, cellConnectivity,
                 cellGeometry,
                 hostLive, i>>

\* Lines 211-213.
AllocCellState ==
  /\ pc = "alloc_cell_state"
  /\ LET n == Len(domain[i].cell_state) IN
     \E r \in AllocResults(n) :
       LET m == MallocDevice(dev, n, r) IN
       /\ log' = Append(log, Ev("alloc", "cell_state", i, 0, n, m.ptr, r, r))
       /\ hostLog' = hostLog \o AllocInto("domain_h", 0, Len(log) + 1, r)
       /\ dev' = m.mem
       /\ domain_h' = IF r = "throw" THEN domain_h ELSE [domain_h EXCEPT ![i].cell_state = m.ptr]
       /\ pc' = safeCall(DPCT_CHECK_ERROR(r), "copy_cell_state")
  /\ UNCHANGED <<harness, inputs, domainSize, cell_state_h, cellConnectivity, cellGeometry,
                 hostLive, i, j>>

\* Lines 215-224: the patched cell states go to the device; then _domainGid,
\* free(cell_state_h), _nbrRankSize.
CopyCellState ==
  /\ pc = "copy_cell_state"
  /\ \E c \in CopyResults :
       LET n == Len(domain[i].cell_state)
           dst == domain_h[i].cell_state
           res == MemcpyResult(dst, n, c)
       IN
       /\ log' = Append(log, Ev("copy", "cell_state", i, 0, n, dst, c, res))
       /\ hostLog' = hostLog \o
                       <<Acc("read", "domain_h", 0, Len(log) + 1)>> \o
                       CopyThenFree("cell_state_h", i, Len(log) + 1, res = "ok") \o
                       (IF res = "ok" THEN <<Acc("write", "domain_h", 0, Len(log) + 1)>> ELSE <<>>)
       /\ dev' = IF res = "ok" THEN Memcpy(dev, dst, cell_state_h, n) ELSE dev
       /\ pc' = safeCall(DPCT_CHECK_ERROR(res), "alloc_nbrRank")
       /\ IF res = "ok"
          THEN /\ domain_h' = [domain_h EXCEPT ![i].mesh._domainGid = domain[i].mesh._domainGid,
                                               ![i].mesh._nbrRankSize = Len(domain[i].mesh._nbrRank)]
               /\ hostLive' = hostLive \ {"cell_state_h"}
          ELSE UNCHANGED <<domain_h, hostLive>>
  /\ UNCHANGED <<harness, inputs, domainSize, cell_state_h, cellConnectivity, cellGeometry, i, j>>

\* Lines 230-232.
AllocNbrRank ==
  /\ pc = "alloc_nbrRank"
  /\ LET n == Len(domain[i].mesh._nbrRank) IN
     \E r \in AllocResults(n) :
       LET m == MallocDevice(dev, n, r) IN
       /\ log' = Append(log, Ev("alloc", "_nbrRank", i, 0, n, m.ptr, r, r))
       /\ hostLog' = hostLog \o AllocInto("domain_h", 0, Len(log) + 1, r)
       /\ dev' = m.mem
       /\ domain_h' = IF r = "throw" THEN domain_h ELSE [domain_h EXCEPT ![i].mesh._nbrRank = m.ptr]
       /\ pc' = safeCall(DPCT_CHECK_ERROR(r), "copy_nbrRank")
  /\ UNCHANGED <<harness, inputs, domainSize, cell_state_h, cellConnectivity, cellGeometry,
                 hostLive, i, j>>

\* Lines 233-240: the neighbor ranks go to the device; then _nodeSize.
CopyNbrRank ==
  /\ pc = "copy_nbrRank"
  /\ \E c \in CopyResults :
       LET n == Len(domain[i].mesh._nbrRank)
           dst == domain_h[i].mesh._nbrRank
           res == MemcpyResult(dst, n, c)
       IN
       /\ log' = Append(log, Ev("copy", "_nbrRank", i, 0, n, dst, c, res))
       /\ hostLog' = hostLog \o
                       <<Acc("read", "domain_h", 0, Len(log) + 1)>> \o
                       (IF res = "ok" THEN <<Acc("write", "domain_h", 0, Len(log) + 1)>> ELSE <<>>)
       /\ dev' = IF res = "ok" THEN Memcpy(dev, dst, domain[i].mesh._nbrRank, n) ELSE dev
       /\ pc' = safeCall(DPCT_CHECK_ERROR(res), "alloc_node")
       /\ domain_h' = IF res = "ok"
                      THEN [domain_h EXCEPT ![i].mesh._nodeSize = Len(domain[i].mesh._node)]
                      ELSE domain_h
  /\ UNCHANGED <<harness, inputs, domainSize, cell_state_h, cellConnectivity, cellGeometry,
                 hostLive, i, j>>

\* Lines 246-248: sized by the staged _nodeSize.
AllocNode ==
  /\ pc = "alloc_node"
  /\ LET n == domain_h[i].mesh._nodeSize IN
     \E r \in AllocResults(n) :
       LET m == MallocDevice(dev, n, r) IN
       /\ log' = Append(log, Ev("alloc", "_node", i, 0, n, m.ptr, r, r))
       /\ hostLog' = hostLog \o
                       <<Acc("read", "domain_h", 0, Len(log) + 1)>> \o
                       AllocInto("domain_h", 0, Len(log) + 1, r)
       /\ dev' = m.mem
       /\ domain_h' = IF r = "throw" THEN domain_h ELSE [domain_h EXCEPT ![i].mesh._node = m.ptr]
       /\ pc' = safeCall(DPCT_CHECK_ERROR(r), "copy_node")
  /\ UNCHANGED <<harness, inputs, domainSize, cell_state_h, cellConnectivity, cellGeometry,
                 hostLive, i, j>>

\* Lines 249-259: the nodes go to the device; then _cellConnectivitySize, the
\* staging connectivity cells and the entry of their loop.
CopyNode ==
  /\ pc = "copy_node"
  /\ \E c \in CopyResults :
       LET n == domain_h[i].mesh._nodeSize
           dst == domain_h[i].mesh._node
           res == MemcpyResult(dst, n, c)
           size == Len(domain[i].mesh._cellConnectivity)
       IN
       /\ log' = Append(log, Ev("copy", "_node", i, 0, n, dst, c, res))
       /\ hostLog' = hostLog \o
                       <<Acc("read", "domain_h", 0, Len(log) + 1)>> \o
                       (IF res = "ok"
                        THEN <<Acc("write", "domain_h", 0, Len(log) + 1),
                               Acc("malloc", "cellConnectivity", i, Len(log) + 1)>>
                        ELSE <<>>)
       /\ dev' = IF res = "ok" THEN Memcpy(dev, dst, domain[i].mesh._node, n) ELSE dev
       /\ pc' = safeCall(DPCT_CHECK_ERROR(res),
                         CellLoop(1, size, "alloc_point", "alloc_cellConnectivity"))
       /\ IF res = "ok"
          THEN /\ domain_h' = [domain_h EXCEPT ![i].mesh._cellConnectivitySize = size]
               /\ cellConnectivity' = [jj \in 1..size |->
                                         [num_points |-> UninitInt, num_facets |-> UninitInt,
                                          _point |-> UNINIT, _facet |-> UNINIT]]
               /\ hostLive' = hostLive \cup {"cellConnectivity"}
               /\ j' = 1
          ELSE UNCHANGED <<domain_h, cellConnectivity, hostLive, j>>
  /\ UNCHANGED <<harness, inputs, domainSize, cell_state_h, cellGeometry, i>>

\* Lines 261-271: the cell's two counts, then its _point buffer.
AllocPoint ==
  /\ pc = "alloc_point"
  /\ LET hc == domain[i].mesh._cellConnectivity[j]
         st == [cellConnectivity EXCEPT ![j].num_points = hc.num_points,
                                        ![j].num_facets = hc.num_facets]
         n  == st[j].num_points
     IN
     \E r \in AllocResults(n) :
       LET m == MallocDevice(dev, n, r) IN
       /\ log' = Append(log, Ev("alloc", "_point", i, j, n, m.ptr, r, r))
       /\ hostLog' = hostLog \o
                       <<Acc("write", "cellConnectivity", i, Len(log) + 1),
                         Acc("read", "cellConnectivity", i, Len(log) + 1)>> \o
                       AllocInto("cellConnectivity", i, Len(log) + 1, r)
       /\ dev' = m.mem
       /\ cellConnectivity' = IF r = "throw" THEN st ELSE [st EXCEPT ![j]._point = m.ptr]
       /\ pc' = safeCall(DPCT_CHECK_ERROR(r), "copy_point")
  /\ UNCHANGED <<harness, inputs, domainSize, domain_h, cell_state_h, cellGeometry, hostLive, i, j>>

\* Lines 272-277.
CopyPoint ==
  /\ pc = "copy_point"
  /\ \E c \in CopyResults :
       LET n == cellConnectivity[j].num_points
           dst == cellConnectivity[j]._point
           res == MemcpyResult(dst, n, c)
       IN
       /\ log' = Append(log, Ev("copy", "_point", i, j, n, dst, c, res))
       /\ hostLog' = hostLog \o <<Acc("read", "cellConnectivity", i, Len(log) + 1)>>
       /\ dev' = IF res = "ok"
                 THEN Memcpy(dev, dst, domain[i].mesh._cellConnectivity[j]._point, n)
                 ELSE dev
       /\ pc' = safeCall(DPCT_CHECK_ERROR(res), "alloc_facet")
  /\ UNCHANGED <<harness, inputs, domainSize, domain_h, cell_state_h, cellConnectivity,
                 cellGeometry,
                 hostLive, i, j>>

\* Defect: _facet is given the cell's _point buffer.
PatchFacet_aliasesPoint(st, jj, p) == [st EXCEPT ![jj]._facet = st[jj]._point]

\* cellConnectivity[j]._facet = <the address malloc_device returned>
PatchFacet(st, jj, p) == [st EXCEPT ![jj]._facet = p]

\* Lines 283-287.
AllocFacet ==
  /\ pc = "alloc_facet"
  /\ LET n == cellConnectivity[j].num_facets IN
     \E r \in AllocResults(n) :
       LET m == MallocDevice(dev, n, r) IN
       /\ log' = Append(log, Ev("alloc", "_facet", i, j, n, m.ptr, r, r))
       /\ hostLog' = hostLog \o
                       <<Acc("read", "cellConnectivity", i, Len(log) + 1)>> \o
                       AllocInto("cellConnectivity", i, Len(log) + 1, r)
       /\ dev' = m.mem
       /\ cellConnectivity' = IF r = "throw" THEN cellConnectivity
                              ELSE PatchFacet(cellConnectivity, j, m.ptr)
       /\ pc' = safeCall(DPCT_CHECK_ERROR(r), "copy_facet")
  /\ UNCHANGED <<harness, inputs, domainSize, domain_h, cell_state_h, cellGeometry, hostLive, i, j>>

\* Lines 288-295, and the loop's step.
CopyFacet ==
  /\ pc = "copy_facet"
  /\ \E c \in CopyResults :
       LET n == cellConnectivity[j].num_facets
           dst == cellConnectivity[j]._facet
           res == MemcpyResult(dst, n, c)
       IN
       /\ log' = Append(log, Ev("copy", "_facet", i, j, n, dst, c, res))
       /\ hostLog' = hostLog \o <<Acc("read", "cellConnectivity", i, Len(log) + 1)>>
       /\ dev' = IF res = "ok"
                 THEN Memcpy(dev, dst, domain[i].mesh._cellConnectivity[j]._facet, n)
                 ELSE dev
       /\ pc' = safeCall(DPCT_CHECK_ERROR(res),
                         CellLoop(j + 1, domain_h[i].mesh._cellConnectivitySize,
                                  "alloc_point", "alloc_cellConnectivity"))
       /\ j' = IF res = "ok" THEN j + 1 ELSE j
  /\ UNCHANGED <<harness, inputs, domainSize, domain_h, cell_state_h, cellConnectivity,
                 cellGeometry,
                 hostLive, i>>

\* Lines 301-304.
AllocCellConnectivity ==
  /\ pc = "alloc_cellConnectivity"
  /\ LET n == domain_h[i].mesh._cellConnectivitySize IN
     \E r \in AllocResults(n) :
       LET m == MallocDevice(dev, n, r) IN
       /\ log' = Append(log, Ev("alloc", "_cellConnectivity", i, 0, n, m.ptr, r, r))
       /\ hostLog' = hostLog \o
                       <<Acc("read", "domain_h", 0, Len(log) + 1)>> \o
                       AllocInto("domain_h", 0, Len(log) + 1, r)
       /\ dev' = m.mem
       /\ domain_h' = IF r = "throw" THEN domain_h
                      ELSE [domain_h EXCEPT ![i].mesh._cellConnectivity = m.ptr]
       /\ pc' = safeCall(DPCT_CHECK_ERROR(r), "copy_cellConnectivity")
  /\ UNCHANGED <<harness, inputs, domainSize, cell_state_h, cellConnectivity, cellGeometry,
                 hostLive, i, j>>

\* Lines 305-315: the patched connectivity cells go to the device; then
\* free(cellConnectivity), _cellGeometrySize, the staging geometry cells and
\* the entry of their loop.
CopyCellConnectivity ==
  /\ pc = "copy_cellConnectivity"
  /\ \E c \in CopyResults :
       LET n == domain_h[i].mesh._cellConnectivitySize
           dst == domain_h[i].mesh._cellConnectivity
           res == MemcpyResult(dst, n, c)
           size == Len(domain[i].mesh._cellGeometry)
       IN
       /\ log' = Append(log, Ev("copy", "_cellConnectivity", i, 0, n, dst, c, res))
       /\ hostLog' = hostLog \o
                       <<Acc("read", "domain_h", 0, Len(log) + 1)>> \o
                       CopyThenFree("cellConnectivity", i, Len(log) + 1, res = "ok") \o
                       (IF res = "ok"
                        THEN <<Acc("write", "domain_h", 0, Len(log) + 1),
                               Acc("malloc", "cellGeometry", i, Len(log) + 1)>>
                        ELSE <<>>)
       /\ dev' = IF res = "ok" THEN Memcpy(dev, dst, cellConnectivity, n) ELSE dev
       /\ pc' = safeCall(DPCT_CHECK_ERROR(res),
                         CellLoop(1, size, "alloc_geomFacet", "alloc_cellGeometry"))
       /\ IF res = "ok"
          THEN /\ domain_h' = [domain_h EXCEPT ![i].mesh._cellGeometrySize = size]
               /\ cellGeometry' = [jj \in 1..size |-> [_size |-> UninitInt, _facet |-> UNINIT]]
               /\ hostLive' = (hostLive \ {"cellConnectivity"}) \cup {"cellGeometry"}
               /\ j' = 1
          ELSE UNCHANGED <<domain_h, cellGeometry, hostLive, j>>
  /\ UNCHANGED <<harness, inputs, domainSize, cell_state_h, cellConnectivity, i>>

\* Lines 317-325: the cell's count, then its _facet buffer.
AllocGeomFacet ==
  /\ pc = "alloc_geomFacet"
  /\ LET st == [cellGeometry EXCEPT ![j]._size = domain[i].mesh._cellGeometry[j]._size]
         n  == st[j]._size
     IN
     \E r \in AllocResults(n) :
       LET m == MallocDevice(dev, n, r) IN
       /\ log' = Append(log, Ev("alloc", "g_facet", i, j, n, m.ptr, r, r))
       /\ hostLog' = hostLog \o
                       <<Acc("write", "cellGeometry", i, Len(log) + 1),
                         Acc("read", "cellGeometry", i, Len(log) + 1)>> \o
                       AllocInto("cellGeometry", i, Len(log) + 1, r)
       /\ dev' = m.mem
       /\ cellGeometry' = IF r = "throw" THEN st ELSE [st EXCEPT ![j]._facet = m.ptr]
       /\ pc' = safeCall(DPCT_CHECK_ERROR(r), "copy_geomFacet")
  /\ UNCHANGED <<harness, inputs, domainSize, domain_h, cell_state_h, cellConnectivity,
                 hostLive, i, j>>

\* Lines 326-332, and the loop's step.
CopyGeomFacet ==
  /\ pc = "copy_geomFacet"
  /\ \E c \in CopyResults :
       LET n == cellGeometry[j]._size
           dst == cellGeometry[j]._facet
           res == MemcpyResult(dst, n, c)
       IN
       /\ log' = Append(log, Ev("copy", "g_facet", i, j, n, dst, c, res))
       /\ hostLog' = hostLog \o <<Acc("read", "cellGeometry", i, Len(log) + 1)>>
       /\ dev' = IF res = "ok"
                 THEN Memcpy(dev, dst, domain[i].mesh._cellGeometry[j]._facet, n)
                 ELSE dev
       /\ pc' = safeCall(DPCT_CHECK_ERROR(res),
                         CellLoop(j + 1, domain_h[i].mesh._cellGeometrySize,
                                  "alloc_geomFacet", "alloc_cellGeometry"))
       /\ j' = IF res = "ok" THEN j + 1 ELSE j
  /\ UNCHANGED <<harness, inputs, domainSize, domain_h, cell_state_h, cellConnectivity,
                 cellGeometry,
                 hostLive, i>>

\* Lines 338-341.
AllocCellGeometry ==
  /\ pc = "alloc_cellGeometry"
  /\ LET n == domain_h[i].mesh._cellGeometrySize IN
     \E r \in AllocResults(n) :
       LET m == MallocDevice(dev, n, r) IN
       /\ log' = Append(log, Ev("alloc", "_cellGeometry", i, 0, n, m.ptr, r, r))
       /\ hostLog' = hostLog \o
                       <<Acc("read", "domain_h", 0, Len(log) + 1)>> \o
                       AllocInto("domain_h", 0, Len(log) + 1, r)
       /\ dev' = m.mem
       /\ domain_h' = IF r = "throw" THEN domain_h
                      ELSE [domain_h EXCEPT ![i].mesh._cellGeometry = m.ptr]
       /\ pc' = safeCall(DPCT_CHECK_ERROR(r), "copy_cellGeometry")
  /\ UNCHANGED <<harness, inputs, domainSize, cell_state_h, cellConnectivity, cellGeometry,
                 hostLive, i, j>>

\* Lines 342-350: the patched geometry cells go to the device; then
\* free(cellGeometry) and the next domain.
CopyCellGeometry ==
  /\ pc = "copy_cellGeometry"
  /\ \E c \in CopyResults :
       LET n == domain_h[i].mesh._cellGeometrySize
           dst == domain_h[i].mesh._cellGeometry
           res == MemcpyResult(dst, n, c)
       IN
       /\ log' = Append(log, Ev("copy", "_cellGeometry", i, 0, n, dst, c, res))
       /\ hostLog' = hostLog \o
                       <<Acc("read", "domain_h", 0, Len(log) + 1)>> \o
                       CopyThenFree("cellGeometry", i, Len(log) + 1, res = "ok")
       /\ dev' = IF res = "ok" THEN Memcpy(dev, dst, cellGeometry, n) ELSE dev
       /\ pc' = safeCall(DPCT_CHECK_ERROR(res), DomainLoop(i + 1, domainSize))
       /\ IF res = "ok"
          THEN /\ hostLive' = hostLive \ {"cellGeometry"}
               /\ i' = i + 1
          ELSE UNCHANGED <<hostLive, i>>
  /\ UNCHANGED <<harness, inputs, domainSize, domain_h, cell_state_h, cellConnectivity,
                 cellGeometry, j>>

\* Lines 351-356: the staging descriptors go to the address the caller gave;
\* then free(domain_h) and the return.
CopyDomain ==
  /\ pc = "copy_domain"
  /\ \E c \in CopyResults :
       LET res == MemcpyResult(domain_d, domainSize, c) IN
       /\ log' = Append(log, Ev("copy", "domain_d", 0, 0, domainSize, domain_d, c, res))
       /\ hostLog' = hostLog \o CopyThenFree("domain_h", 0, Len(log) + 1, res = "ok")
       /\ dev' = IF res = "ok" THEN Memcpy(dev, domain_d, domain_h, domainSize) ELSE dev
       /\ pc' = safeCall(DPCT_CHECK_ERROR(res), "done")
       /\ hostLive' = IF res = "ok" THEN hostLive \ {"domain_h"} ELSE hostLive
  /\ UNCHANGED <<harness, inputs, domainSize, domain_h, cell_state_h, cellConnectivity,
                 cellGeometry, i, j>>

Next ==
  \/ Start
  \/ StageCellState
  \/ AllocTotal
  \/ CopyTotal
  \/ AllocCellState
  \/ CopyCellState
  \/ AllocNbrRank
  \/ CopyNbrRank
  \/ AllocNode
  \/ CopyNode
  \/ AllocPoint
  \/ CopyPoint
  \/ AllocFacet
  \/ CopyFacet
  \/ AllocCellConnectivity
  \/ CopyCellConnectivity
  \/ AllocGeomFacet
  \/ CopyGeomFacet
  \/ AllocCellGeometry
  \/ CopyCellGeometry
  \/ CopyDomain

Spec == Init /\ [][Next]_vars

(***************************************************************************)
(* Reading the result back.                                                *)
(***************************************************************************)
Done == pc = "done"
Aborted == pc = "aborted"

\* The content of the device buffer at address p.
At(p) == dev[p.a]

\* The descriptor array as the device holds it.
Mirror == IF domain_d.sp = "dev" THEN At(domain_d) ELSE <<>>

\* The addresses malloc_device returned during this build.
Allocated ==
  {log[q].ptr : q \in {x \in 1..Len(log) : log[x].op = "alloc" /\ log[x].ptr.sp = "dev"}}

\* The positions of the log that hold the call op on array what of domain d, cell c.
Calls(op, what, d, c) ==
  {q \in 1..Len(log) : log[q].op = op /\ log[q].what = what /\ log[q].i = d /\ log[q].j = c}

\* C1: after a successful build every address in the mirror whose count is
\* not zero was returned by a device allocation of this build (so it is no
\* host address, no null and no uninitialized value).
C1_AddressesFromThisBuild ==
  Done =>
    \A d \in 1..Len(Mirror) :
      LET D == Mirror[d] IN
      /\ D.cell_stateSize # 0 =>
           /\ D.cell_state \in Allocated
           /\ \A c \in 1..D.cell_stateSize :
                numEnergyGroups # 0 => At(D.cell_state)[c]._total \in Allocated
      /\ D.mesh._nbrRankSize # 0 => D.mesh._nbrRank \in Allocated
      /\ D.mesh._nodeSize # 0 => D.mesh._node \in Allocated
      /\ D.mesh._cellConnectivitySize # 0 =>
           /\ D.mesh._cellConnectivity \in Allocated
           /\ \A c \in 1..D.mesh._cellConnectivitySize :
                LET C == At(D.mesh._cellConnectivity)[c] IN
                /\ C.num_points # 0 => C._point \in Allocated
                /\ C.num_facets # 0 => C._facet \in Allocated
      /\ D.mesh._cellGeometrySize # 0 =>
           /\ D.mesh._cellGeometry \in Allocated
           /\ \A c \in 1..D.mesh._cellGeometrySize :
                LET G == At(D.mesh._cellGeometry)[c] IN
                G._size # 0 => G._facet \in Allocated

\* A finished build of two domains, one with a cell that has points and facets.
C1_Witness ==
  /\ Done
  /\ Len(Mirror) = 2
  /\ \E d \in 1..Len(Mirror) :
       /\ Mirror[d].cell_stateSize > 1
       /\ \E c \in 1..Mirror[d].mesh._cellConnectivitySize :
            LET C == At(Mirror[d].mesh._cellConnectivity)[c] IN
            C.num_points > 0 /\ C.num_facets > 0

\* The five counts of descriptor d equal the sizes of the host arrays.
CountsMatch(D, d) ==
  /\ D.cell_stateSize = Len(domain[d].cell_state)
  /\ D.mesh._nbrRankSize = Len(domain[d].mesh._nbrRank)
  /\ D.mesh._nodeSize = Len(domain[d].mesh._node)
  /\ D.mesh._cellConnectivitySize = Len(domain[d].mesh._cellConnectivity)
  /\ D.mesh._cellGeometrySize = Len(domain[d].mesh._cellGeometry)

\* C2 as stated: a successful build of a non-empty sequence reports the domain
\* count, every count equals the host array's size, and every paired address
\* is non-null.
C2_CountsAndNonNull ==
  (Done /\ Len(domain) > 0) =>
    /\ domainSize = Len(domain)
    /\ Len(Mirror) = Len(domain)
    /\ \A d \in 1..Len(Mirror) :
         LET D == Mirror[d] IN
         /\ CountsMatch(D, d)
         /\ D.cell_state # NULL
         /\ D.mesh._nbrRank # NULL
         /\ D.mesh._node # NULL
         /\ D.mesh._cellConnectivity # NULL
         /\ D.mesh._cellGeometry # NULL

\* C2 amended: the same, with the address non-null where the count is not zero.
C2_CountsAndNonNullWhereNonEmpty ==
  (Done /\ Len(domain) > 0) =>
    /\ domainSize = Len(domain)
    /\ Len(Mirror) = Len(domain)
    /\ \A d \in 1..Len(Mirror) :
         LET D == Mirror[d] IN
         /\ CountsMatch(D, d)
         /\ D.cell_stateSize > 0 => D.cell_state.sp = "dev"
         /\ D.mesh._nbrRankSize > 0 => D.mesh._nbrRank.sp = "dev"
         /\ D.mesh._nodeSize > 0 => D.mesh._node.sp = "dev"
         /\ D.mesh._cellConnectivitySize > 0 => D.mesh._cellConnectivity.sp = "dev"
         /\ D.mesh._cellGeometrySize > 0 => D.mesh._cellGeometry.sp = "dev"

\* A finished build with an empty array recorded as (null, 0) next to a
\* non-empty one.
C2_Witness ==
  /\ Done
  /\ \E d \in 1..Len(Mirror) :
       /\ Mirror[d].mesh._nbrRankSize = 0
       /\ Mirror[d].mesh._nbrRank = NULL
       /\ Mirror[d].cell_stateSize > 0
       /\ Mirror[d].cell_state.sp = "dev"

\* C3 as stated: the build aborts at the call that fails, so a failed call is
\* the last call issued and the build is aborted from then on.
C3_AbortsAtFailingCall ==
  \A q \in 1..Len(log) :
    log[q].res # "ok" => (q = Len(log) /\ Aborted)

\* Descriptor D is the finished descriptor of host domain d: its scalars and
\* counts are the host's and no address is left as malloc made it.
Patched(D, d) ==
  /\ D.domainIndex = domain[d].domainIndex
  /\ D.global_domain = domain[d].global_domain
  /\ D.mesh._domainGid = domain[d].mesh._domainGid
  /\ CountsMatch(D, d)
  /\ D.cell_state # UNINIT
  /\ D.mesh._nbrRank # UNINIT
  /\ D.mesh._node # UNINIT
  /\ D.mesh._cellConnectivity # UNINIT
  /\ D.mesh._cellGeometry # UNINIT

\* C4 as stated: the buffer that receives the descriptor array is one the
\* builder allocated itself.
C4_BuilderAllocatesDescriptorArray ==
  Done => domain_d \in Allocated

\* C4 amended: the builder allocates nothing for the descriptor array; after
\* all domains are processed it copies the fully patched staging array, in one
\* transfer of domainSize descriptors and as its last call, to the address
\* domain_d that the caller passed, and reports the domain count in domainSize.
C4_CopiesToCallersBuffer ==
  Done =>
    /\ domainSize = Len(domain)
    /\ domain_d \notin Allocated
    /\ \A q \in 1..Len(log) :
         (log[q].op = "copy" /\ log[q].ptr = domain_d) <=> q = Len(log)
    /\ log[Len(log)].n = domainSize
    /\ Len(Mirror) = domainSize
    /\ \A d \in 1..Len(Mirror) : Mirror[d] = domain_h[d] /\ Patched(Mirror[d], d)

\* A finished build of two domains into the caller's buffer.
C4_Witness ==
  /\ Done
  /\ domain_d.sp = "dev"
  /\ Len(Mirror) = 2
  /\ log[Len(log)].what = "domain_d"

\* The device array at p holds exactly the host array h.
LeafEq(p, h) == Len(h) = 0 \/ (p.sp = "dev" /\ At(p) = h)

\* C5: after a successful build every leaf array on the device equals its host
\* source element for element.
C5_LeavesEqualHost ==
  Done =>
    \A d \in 1..Len(Mirror) :
      LET D == Mirror[d]
          H == domain[d]
      IN
      /\ LeafEq(D.mesh._nbrRank, H.mesh._nbrRank)
      /\ LeafEq(D.mesh._node, H.mesh._node)
      /\ \A c \in 1..Len(H.cell_state) :
           /\ Len(H.cell_state[c]._total) = numEnergyGroups
           /\ LeafEq(At(D.cell_state)[c]._total, H.cell_state[c]._total)
      /\ \A c \in 1..Len(H.mesh._cellConnectivity) :
           /\ LeafEq(At(D.mesh._cellConnectivity)[c]._point, H.mesh._cellConnectivity[c]._point)
           /\ LeafEq(At(D.mesh._cellConnectivity)[c]._facet, H.mesh._cellConnectivity[c]._facet)
      /\ \A c \in 1..Len(H.mesh._cellGeometry) :
           LeafEq(At(D.mesh._cellGeometry)[c]._facet, H.mesh._cellGeometry[c]._facet)

\* A finished build with two cells of more than one energy group each.
C5_Witness ==
  /\ Done
  /\ numEnergyGroups > 1
  /\ \E d \in 1..Len(Mirror) :
       /\ Mirror[d].cell_stateSize > 1
       /\ Mirror[d].mesh._nbrRankSize > 0
       /\ At(At(Mirror[d].cell_state)[2]._total) = domain[d].cell_state[2]._total

\* The address-valued fields that the staging records and the device records
\* hold at this moment, each with the logical array it stands for.
Field(what, d, c, p) == [what |-> what, i |-> d, j |-> c, ptr |-> p]

DescriptorFields(DS) ==
  UNION {{Field("cell_state", d, 0, DS[d].cell_state),
          Field("_nbrRank", d, 0, DS[d].mesh._nbrRank),
          Field("_node", d, 0, DS[d].mesh._node),
          Field("_cellConnectivity", d, 0, DS[d].mesh._cellConnectivity),
          Field("_cellGeometry", d, 0, DS[d].mesh._cellGeometry)} : d \in 1..Len(DS)}

CellFields(DS) ==
  UNION {
    LET D == DS[d] IN
      (IF D.cell_state.sp = "dev" /\ D.cell_stateSize > 0
       THEN {Field("_total", d, c, At(D.cell_state)[c]._total) : c \in 1..Len(At(D.cell_state))}
       ELSE {})
      \cup
      (IF D.mesh._cellConnectivity.sp = "dev" /\ D.mesh._cellConnectivitySize > 0
       THEN UNION {{Field("_point", d, c, At(D.mesh._cellConnectivity)[c]._point),
                    Field("_facet", d, c, At(D.mesh._cellConnectivity)[c]._facet)}
                   : c \in 1..Len(At(D.mesh._cellConnectivity))}
       ELSE {})
      \cup
      (IF D.mesh._cellGeometry.sp = "dev" /\ D.mesh._cellGeometrySize > 0
       THEN {Field("g_facet", d, c, At(D.mesh._cellGeometry)[c]._facet)
             : c \in 1..Len(At(D.mesh._cellGeometry))}
       ELSE {})
    : d \in 1..Len(DS)}

StagingFields ==
  (IF "cell_state_h" \in hostLive
   THEN {Field("_total", i, c, cell_state_h[c]._total) : c \in 1..Len(cell_state_h)}
   ELSE {})
  \cup
  (IF "cellConnectivity" \in hostLive
   THEN {Field("_point", i, c, cellConnectivity[c]._point) : c \in 1..Len(cellConnectivity)}
        \cup {Field("_facet", i, c, cellConnectivity[c]._facet) : c \in 1..Len(cellConnectivity)}
   ELSE {})
  \cup
  (IF "cellGeometry" \in hostLive
   THEN {Field("g_facet", i, c, cellGeometry[c]._facet) : c \in 1..Len(cellGeometry)}
   ELSE {})

\* The fields of the device records of the domains before domain ii.
FinishedFields(ii) == CellFields([d \in 1..(ii - 1) |-> domain_h[d]])

\* Every field that holds a device address: in the staging records, in the
\* device records of the domains already finished, and in the mirror once the
\* build is done.
DeviceFields ==
  {f \in DescriptorFields(domain_h) \cup FinishedFields(i) \cup StagingFields \cup
         (IF Done THEN DescriptorFields(Mirror) \cup CellFields(Mirror) ELSE {})
     : f.ptr.sp = "dev"}

\* C6: no device buffer backs two logical arrays, throughout the build: every
\* allocation returns an address no earlier one returned, none is the caller's
\* buffer, and the fields that hold a device address stand one to one for the
\* logical arrays (as many addresses as fields, as many arrays as fields).
C6_NoAliasing ==
  LET allocs == {q \in 1..Len(log) : log[q].op = "alloc" /\ log[q].ptr.sp = "dev"}
      fields == DeviceFields
  IN
  /\ Cardinality({log[q].ptr : q \in allocs}) = Cardinality(allocs)
  /\ \A f \in fields : f.ptr # domain_d /\ f.ptr \in Allocated
  /\ Cardinality({f.ptr : f \in fields}) = Cardinality(fields)
  /\ Cardinality({<<f.what, f.i, f.j>> : f \in fields}) = Cardinality(fields)

\* A finished build in which two cells of one domain have different point and
\* facet counts and each has its own buffers.
C6_Witness ==
  /\ Done
  /\ \E d \in 1..Len(Mirror) :
       /\ Mirror[d].mesh._cellConnectivitySize > 1
       /\ LET A == At(Mirror[d].mesh._cellConnectivity) IN
          /\ A[1].num_points # A[2].num_points
          /\ A[1].num_facets # A[2].num_facets
          /\ A[1]._point.sp = "dev"
          /\ A[1]._facet.sp = "dev"
          /\ A[1]._point # A[1]._facet

\* C7: within each domain the mirrored cell arrays keep the host order: entry
\* c of the cell-state, connectivity and geometry arrays is built from host
\* cell c (its scalar payload, its counts and the content of its buffers).
C7_CellOrderPreserved ==
  Done =>
    \A d \in 1..Len(Mirror) :
      LET D == Mirror[d]
          H == domain[d]
      IN
      /\ \A c \in 1..Len(H.cell_state) :
           /\ At(D.cell_state)[c]._material = H.cell_state[c]._material
           /\ LeafEq(At(D.cell_state)[c]._total, H.cell_state[c]._total)
      /\ \A c \in 1..Len(H.mesh._cellConnectivity) :
           LET C == At(D.mesh._cellConnectivity)[c] IN
           /\ C.num_points = H.mesh._cellConnectivity[c].num_points
           /\ C.num_facets = H.mesh._cellConnectivity[c].num_facets
           /\ LeafEq(C._point, H.mesh._cellConnectivity[c]._point)
           /\ LeafEq(C._facet, H.mesh._cellConnectivity[c]._facet)
      /\ \A c \in 1..Len(H.mesh._cellGeometry) :
           LET G == At(D.mesh._cellGeometry)[c] IN
           /\ G._size = H.mesh._cellGeometry[c]._size
           /\ LeafEq(G._facet, H.mesh._cellGeometry[c]._facet)

\* A finished build whose second cell differs from its first in payload and
\* in counts.
C7_Witness ==
  /\ Done
  /\ \E d \in 1..Len(Mirror) :
       /\ Mirror[d].cell_stateSize > 1
       /\ At(Mirror[d].cell_state)[1]._material # At(Mirror[d].cell_state)[2]._material
       /\ At(Mirror[d].mesh._cellConnectivity)[2].num_points
            = domain[d].mesh._cellConnectivity[2].num_points
       /\ At(Mirror[d].mesh._cellGeometry)[1]._size # At(Mirror[d].mesh._cellGeometry)[2]._size

\* C8 as stated: with no domain the build completes with count 0 and a
\* non-null result.
C8_EmptyYieldsNonNull ==
  (Done /\ Len(domain) = 0) => (domainSize = 0 /\ domain_d # NULL)

\* C8 amended: with no domain the builder issues no allocation and a single
\* copy, of zero descriptors, to domain_d; it fails only if the device makes
\* that copy fail, and otherwise completes with count 0.  It produces no
\* address: domain_d is the caller's, null or not.
C8_EmptyCompletesWithCountZero ==
  Len(domain) = 0 =>
    /\ pc \in {"start", "copy_domain", "done", "aborted"}
    /\ \A q \in 1..Len(log) :
         log[q].op = "copy" /\ log[q].what = "domain_d" /\ log[q].n = 0 /\ q = 1
    /\ Aborted => log[Len(log)].inj = "throw"
    /\ Done => (domainSize = 0 /\ Len(log) = 1 /\ Len(Mirror) = 0 /\ hostLive = {})

\* A finished build of no domain, called with a null domain_d.
C8_Witness ==
  Done /\ Len(domain) = 0 /\ domain_d = NULL /\ domainSize = 0

\* The calls issued for the cell arrays of domain d themselves.
CellArrayCalls(d) ==
  {q \in 1..Len(log) :
     /\ log[q].i = d
     /\ log[q].what \in {"cell_state_h", "cell_state", "_cellConnectivity", "_cellGeometry"}}

\* C9: for a domain with no cell the builder issues no per-cell allocation or
\* copy, its calls for the three cell arrays are for zero elements and fail
\* only if the device makes them fail, and the mirror records count zero for
\* the three arrays.
C9_ZeroCellDomain ==
  \A d \in 1..Len(domain) :
    Len(domain[d].cell_state) = 0 =>
      /\ \A q \in 1..Len(log) : log[q].i = d => log[q].j = 0
      /\ \A q \in CellArrayCalls(d) :
           log[q].n = 0 /\ (log[q].res # "ok" => log[q].inj = "throw")
      /\ Done =>
           /\ Mirror[d].cell_stateSize = 0
           /\ Mirror[d].mesh._cellConnectivitySize = 0
           /\ Mirror[d].mesh._cellGeometrySize = 0
           /\ Cardinality(CellArrayCalls(d)) = 7

\* A finished build with a domain of no cell next to a domain with cells.
C9_Witness ==
  /\ Done
  /\ \E d, e \in 1..Len(Mirror) :
       /\ Len(domain[d].cell_state) = 0
       /\ Mirror[d].cell_stateSize = 0
       /\ Mirror[e].cell_stateSize > 0

\* The per-cell buffer `child` of cell c was allocated and filled before
\* position q of the log, and its address is what the call at q finds in src.
ChildReady(child, d, c, q, addr) ==
  \E a \in Calls("alloc", child, d, c), f \in Calls("copy", child, d, c) :
    /\ a < f /\ f < q
    /\ log[a].res = "ok" /\ log[f].res = "ok"
    /\ log[a].ptr = addr /\ log[f].ptr = addr

\* C10: construction is bottom-up.  When the copy of a parent array is about
\* to be issued, every per-cell child buffer has been allocated and filled and
\* its address stands in the staging record; when the copy of the descriptor
\* array is about to be issued, the copies of all five arrays of every domain
\* have completed.
C10_BottomUp ==
  /\ pc = "copy_cell_state" =>
       \A c \in 1..Len(domain[i].cell_state) :
         ChildReady("_total", i, c, Len(log) + 1, cell_state_h[c]._total)
  /\ pc = "copy_cellConnectivity" =>
       \A c \in 1..Len(domain[i].mesh._cellConnectivity) :
         /\ ChildReady("_point", i, c, Len(log) + 1, cellConnectivity[c]._point)
         /\ ChildReady("_facet", i, c, Len(log) + 1, cellConnectivity[c]._facet)
  /\ pc = "copy_cellGeometry" =>
       \A c \in 1..Len(domain[i].mesh._cellGeometry) :
         ChildReady("g_facet", i, c, Len(log) + 1, cellGeometry[c]._facet)
  /\ pc = "copy_domain" =>
       \A d \in 1..Len(domain) :
         \A w \in {"cell_state", "_nbrRank", "_node", "_cellConnectivity", "_cellGeometry"} :
           \E q \in Calls("copy", w, d, 0) : log[q].res = "ok"
  /\ \A q \in 1..Len(log) :
       (log[q].op = "copy" /\ log[q].what = "domain_d") => q = Len(log)

\* The descriptor array is about to be copied, after a domain whose cell-state
\* array went to the device with the buffer of its second cell ready.
C10_Witness ==
  /\ pc = "copy_domain"
  /\ \E d \in 1..Len(domain) :
       /\ Len(domain[d].cell_state) > 1
       /\ \E q \in Calls("copy", "cell_state", d, 0) :
            /\ log[q].res = "ok"
            /\ ChildReady("_total", d, 2, q, At(log[q].ptr)[2]._total)

(***************************************************************************)
(* Host staging buffers.                                                   *)
(***************************************************************************)
StagingBuffers == {"domain_h", "cell_state_h", "cellConnectivity", "cellGeometry"}

\* The array whose copy to the device reads the staging buffer.
TargetOf(buf) ==
  CASE buf = "domain_h" -> "domain_d"
    [] buf = "cell_state_h" -> "cell_state"
    [] buf = "cellConnectivity" -> "_cellConnectivity"
    [] buf = "cellGeometry" -> "_cellGeometry"

\* Whether buf is allocated just before access p of the history: its latest
\* malloc or free before p is a malloc.
LiveBefore(buf, p) ==
  LET prior == {q \in 1..(p - 1) :
                  hostLog[q].buf = buf /\ hostLog[q].op \in {"malloc", "free"}}
  IN  /\ prior # {}
      /\ hostLog[CHOOSE q \in prior : \A r \in prior : r <= q].op = "malloc"

\* The copies to the device that read the staging buffer of access e.
TargetCopies(e) ==
  {q \in 1..Len(log) :
     log[q].op = "copy" /\ log[q].what = TargetOf(e.buf) /\ log[q].i = e.i}

\* C11: every host staging buffer (cell_state_h, cellConnectivity and
\* cellGeometry of each domain, domain_h of the build) is allocated before it
\* is first read or written and is not allocated twice over; it is freed only
\* in the step whose copy of it to the device completed, that copy being the
\* only one made of it; it is never read, written or freed after its free; and
\* a build that finished leaves none allocated.
C11_StagingLifetime ==
  /\ \A p \in 1..Len(hostLog) :
       LET e == hostLog[p] IN
       /\ (e.op = "malloc") = ~LiveBefore(e.buf, p)
       /\ e.op = "free" =>
            /\ TargetCopies(e) = {e.at}
            /\ log[e.at].res = "ok"
            /\ \E q \in 1..(p - 1) : hostLog[q] = Acc("read", e.buf, e.i, e.at)
  /\ hostLive = {b \in StagingBuffers : LiveBefore(b, Len(hostLog) + 1)}
  /\ Done => hostLive = {}

\* A build of two domains, one with more than one cell, finished: each
\* domain's three staging arrays and the descriptor array were freed, and the
\* freed cell states had been written and read for the second cell.
C11_Witness ==
  /\ Done
  /\ Len(domain) = 2
  /\ Cardinality({p \in 1..Len(hostLog) : hostLog[p].op = "free"}) = 7
  /\ \E p \in 1..Len(hostLog), q \in 1..Len(log) :
       /\ hostLog[p] = Acc("read", "cell_state_h", 2, q)
       /\ log[q].what = "_total" /\ log[q].j = 2

(***************************************************************************)
(* math_bfe.cpp: bfe_slow<T> and the harness test<T>.                      *)
(***************************************************************************)
\* CHAR_BIT * sizeof(T), scaled down from 32 and 64.
BitWidth == 3

\* The largest N a run is given.
MaxN == 2

\* The integer types: the signed and the unsigned one of BitWidth bits.
Types == {"int", "uint"}

\* std::numeric_limits<T>::min() .. max(), the range rd_source draws from.
ValuesOf(t) ==
  IF t = "int" THEN (0 - 2^(BitWidth - 1))..(2^(BitWidth - 1) - 1) ELSE 0..(2^BitWidth - 1)

\* std::bitset<CHAR_BIT * sizeof(T)>(source): the low bits of the value's
\* two's complement, as a number.
Bitset(source) == source % 2^BitWidth

\* bitset[k]
Bit(bits, k) == (bits \div 2^k) % 2

\* result_bitset.to_ullong() returned as a T.
ToT(t, bits) == IF t = "int" /\ bits >= 2^(BitWidth - 1) THEN bits - 2^BitWidth ELSE bits

Min(a, b) == IF a <= b THEN a ELSE b

RECURSIVE Weigh(_, _)
\* The number whose bit k is bit[k], for k below n.
Weigh(bit, n) == IF n = 0 THEN 0 ELSE Weigh(bit, n - 1) + bit[n - 1] * 2^(n - 1)

\* bfe_slow<T>(source, bit_start, num_bits)
bfe_slow(t, source, bit_start, num_bits) ==
  LET msb == BitWidth - 1
      pos == bit_start % 256
      len == num_bits % 256
      source_bitset == Bitset(source)
      sbit == IF t = "uint" \/ len = 0 THEN 0
              ELSE Bit(source_bitset, Min(pos + len - 1, msb))
      result_bitset == [k \in 0..msb |->
                          IF k < len /\ pos + k <= msb THEN Bit(source_bitset, pos + k)
                          ELSE sbit]
  IN  ToT(t, Weigh(result_bitset, BitWidth))

\* The values rd_start and rd_length are drawn from: offsets and lengths
\* inside the width, at it and past it, and some with bits above the low byte.
StartValues == {0, 1, BitWidth, 256 + 1}
LengthValues == {0, 2, BitWidth + 1, 256}

\* A value of T other than v.
Other(t, v) == ToT(t, (Bitset(v) + 1) % 2^BitWidth)

\* Lines 66-76 done: N inputs drawn, both result vectors zero, nothing
\* submitted.  dpct::bfe_safe<T> is the routine under test: for each input it
\* returns what the reference returns or another value, the same value for the
\* same input.
TestInit ==
  /\ T \in Types
  /\ N \in 1..MaxN
  /\ sources \in [1..N -> ValuesOf(T)]
  /\ starts \in [1..N -> StartValues]
  /\ lengths \in [1..N -> LengthValues]
  /\ \E wrong \in [1..N -> BOOLEAN] :
       /\ \A a, b \in 1..N :
            (sources[a] = sources[b] /\ starts[a] = starts[b] /\ lengths[a] = lengths[b])
              => wrong[a] = wrong[b]
       /\ bfe_safe = [k \in 1..N |->
                        LET v == bfe_slow(T, sources[k], starts[k], lengths[k]) IN
                        IF wrong[k] THEN Other(T, v) ELSE v]
  /\ dpct_results_buffer = [k \in 1..N |-> 0]
  /\ slow_results_buffer = [k \in 1..N |-> 0]
  /\ submitted = {}
  /\ failed = 0 /\ idx = 1 /\ ret = "none"
  /\ tpc = "submit_dpct"
  /\ numEnergyGroups = 1 /\ domain = <<>> /\ domain_d = NULL /\ zeroSizeNull = FALSE
  /\ domainSize = UninitInt /\ domain_h = <<>> /\ cell_state_h = <<>>
  /\ cellConnectivity = <<>> /\ cellGeometry = <<>> /\ hostLive = {} /\ hostLog = <<>>
  /\ dev = <<>> /\ pc = "idle" /\ i = 1 /\ j = 1 /\ log = <<>>

\* Lines 79-89: the first command group is submitted.
SubmitDpct ==
  /\ tpc = "submit_dpct"
  /\ submitted' = submitted \cup {"dpct"}
  /\ tpc' = "submit_slow"
  /\ UNCHANGED <<builder, T, N, sources, starts, lengths, bfe_safe, dpct_results_buffer,
                 slow_results_buffer, failed, idx, ret>>

\* Lines 91-101: the second command group is submitted.
SubmitSlow ==
  /\ tpc = "submit_slow"
  /\ submitted' = submitted \cup {"slow"}
  /\ tpc' = "wait"
  /\ UNCHANGED <<builder, T, N, sources, starts, lengths, bfe_safe, dpct_results_buffer,
                 slow_results_buffer, failed, idx, ret>>

\* Lines 85-88: the first kernel runs, some time after its submission.
KernelDpct ==
  /\ "dpct" \in submitted
  /\ dpct_results_buffer' = [k \in 1..N |-> bfe_safe[k]]
  /\ submitted' = submitted \ {"dpct"}
  /\ UNCHANGED <<builder, T, N, sources, starts, lengths, bfe_safe, slow_results_buffer,
                 failed, idx, ret, tpc>>

\* Lines 97-100: the second kernel runs, some time after its submission.
KernelSlow ==
  /\ "slow" \in submitted
  /\ slow_results_buffer' = [k \in 1..N |-> bfe_slow(T, sources[k], starts[k], lengths[k])]
  /\ submitted' = submitted \ {"slow"}
  /\ UNCHANGED <<builder, T, N, sources, starts, lengths, bfe_safe, dpct_results_buffer,
                 failed, idx, ret, tpc>>

\* Lines 103-112: both kernels have run; the host accessors; failed = 0.
WaitAndThrow ==
  /\ tpc = "wait"
  /\ submitted = {}
  /\ failed' = 0
  /\ idx' = 1
  /\ tpc' = "compare"
  /\ UNCHANGED <<builder, T, N, sources, starts, lengths, bfe_safe, dpct_results_buffer,
                 slow_results_buffer, submitted, ret>>

\* sycl::host_accessor dpct_result_accessor(dpct_results_buffer, read_only)
dpct_result_accessor == dpct_results_buffer

\* sycl::host_accessor slow_result_accessor(dpct_results_buffer, read_only)
slow_result_accessor == dpct_results_buffer

\* Lines 113-122: one round of the comparison loop.
Compare ==
  /\ tpc = "compare"
  /\ idx <= N
  /\ failed' = IF dpct_result_accessor[idx] # slow_result_accessor[idx]
               THEN failed + 1 ELSE failed
  /\ idx' = idx + 1
  /\ UNCHANGED <<builder, T, N, sources, starts, lengths, bfe_safe, dpct_results_buffer,
                 slow_results_buffer, submitted, ret, tpc>>

\* Lines 123-129: the loop is over; return !failed.
Return ==
  /\ tpc = "compare"
  /\ idx > N
  /\ ret' = (failed = 0)
  /\ tpc' = "returned"
  /\ UNCHANGED <<builder, T, N, sources, starts, lengths, bfe_safe, dpct_results_buffer,
                 slow_results_buffer, submitted, failed, idx>>

TestNext ==
  \/ SubmitDpct
  \/ SubmitSlow
  \/ KernelDpct
  \/ KernelSlow
  \/ WaitAndThrow
  \/ Compare
  \/ Return

TestSpec == TestInit /\ [][TestNext]_vars

\* The indices at which the routine under test and the reference differ.
Differing ==
  {k \in 1..N : bfe_safe[k] # bfe_slow(T, sources[k], starts[k], lengths[k])}

\* C12: when test<T> has returned, the failure count it reported is the
\* number of indices at which dpct::bfe_safe<T> and bfe_slow<T> differ, and
\* its result is true exactly when that number is zero.
C12_FailedCountsDifferences ==
  tpc = "returned" =>
    /\ failed = Cardinality(Differing)
    /\ ret = (Cardinality(Differing) = 0)

====
